---- MODULE Spec2Model ----
(***************************************************************************)
(* superpoint/models/utils.py: the homography sampler (sample_homography), *)
(* the flattened/matrix conversions (flat2mat, mat2flat,                   *)
(* invert_homography) and the homography-adaptation loop                   *)
(* (homography_adaptation).                                                *)
(*                                                                         *)
(* Numbers.  Patch coordinates are float32 in the source.  The sampler     *)
(* keeps them here in fixed point, Unit steps to 1.0, on a grid on which   *)
(* every operation of the source is exact (means of four corners, scaling  *)
(* by halves, rotation by quarter turns).  Solutions of linear systems and *)
(* homography entries are exact fractions <<n, d>> in lowest terms, d > 0; *)
(* d = 0 holds the non-finite floats: <<1, 0>> is +inf, <<-1, 0>> is -inf, *)
(* <<0, 0>> is NaN.                                                        *)
(*                                                                         *)
(* Indices.  Python indexes from 0, TLA+ sequences from 1: element k of a  *)
(* tensor in the source is element k + 1 here.                             *)
(***************************************************************************)
EXTENDS Integers, Sequences, FiniteSets, TLC

VARIABLES
    \* sample_homography
    pc, perspective, scaling, rotation, translation, shape,
    pts1, pts2, scales, scaled, angles, rotated, valid, idx, draws,
    homography, err,
    \* flat2mat / mat2flat / invert_homography
    H, H0, arg, calls, raised,
    \* homography_adaptation
    apc, num, i, prob, counts, pred, net_prob, prob_dtype, detection_threshold, steps

svars == <<pc, perspective, scaling, rotation, translation, shape, pts1, pts2,
           scales, scaled, angles, rotated, valid, idx, draws, homography, err>>
cvars == <<H, H0, arg, calls, raised>>
avars == <<apc, num, i, prob, counts, pred, net_prob, prob_dtype,
           detection_threshold, steps>>
vars == <<svars, cvars, avars>>

(***************************************************************************)
(* Bounds of the model.                                                    *)
(***************************************************************************)
\* n_scales ranges over 0..MaxNScales
MaxNScales == 1
\* n_angles ranges over the values of 1..MaxNAngles whose angles are quarter turns
MaxNAngles == 5
\* height and width range over -1..MaxDim
MaxDim == 2
\* at most MaxNoisy of the 8 perspective noise entries are non-zero
MaxNoisy == 1

(***************************************************************************)
(* Arithmetic helpers.                                                     *)
(***************************************************************************)
\* A sequence given as a function, built once as a tuple.
Eager(s) == s \o <<>>

Abs(a) == IF a < 0 THEN -a ELSE a

RECURSIVE Gcd(_, _)
Gcd(a, b) == IF b = 0 THEN a ELSE Gcd(b, a % b)

\* The fraction n/d in lowest terms with a non-negative denominator; a zero
\* denominator gives the float's inf, -inf or NaN.
Frac(n, d) ==
    LET g == Gcd(Abs(n), Abs(d))
        s == IF d < 0 THEN -1 ELSE 1
    IN  IF g = 0 THEN <<0, 0>> ELSE <<(s * n) \div g, (s * d) \div g>>

FInt(n) == <<n, 1>>
FAdd(a, b) == Frac(a[1] * b[2] + b[1] * a[2], a[2] * b[2])
FSub(a, b) == Frac(a[1] * b[2] - b[1] * a[2], a[2] * b[2])
FMul(a, b) == Frac(a[1] * b[1], a[2] * b[2])
\* float division of finite operands: x/0 is inf or -inf, 0/0 is NaN
FDiv(a, b) == Frac(a[1] * b[2], a[2] * b[1])
IsFinite(a) == a[2] # 0

(***************************************************************************)
(* sample_homography                                                       *)
(***************************************************************************)
\* 1.0 in fixed point
Unit == 32

\* 2*pi, in quarter turns
TwoPi == 4

\* pts1, line 98: corners of the output image
InitPts1 == <<<<0, 0>>, <<0, Unit>>, <<Unit, Unit>>, <<Unit, 0>>>>

\* pts2, line 100: corners of the input patch, 0.25 + [[0,0],[0,.5],[.5,.5],[.5,0]]
InitPts2 ==
    LET c == <<<<0, 0>>, <<0, Unit \div 2>>, <<Unit \div 2, Unit \div 2>>, <<Unit \div 2, 0>>>>
    IN  Eager([k \in 1..4 |-> Eager([j \in 1..2 |-> Unit \div 4 + c[k][j]])])

\* tf.truncated_normal(_, 0., 0.25/2): a value at most two standard deviations
\* from the mean.  The largest float32 below 0.25 added to 0.75 rounds to 1.0,
\* so both ends of the range are values the sum can take.
PerspectiveStd == Unit \div 8
NoiseVals == {-2 * PerspectiveStd, 0, 2 * PerspectiveStd}
NoiseTensors ==
    {t \in [1..4 -> [1..2 -> NoiseVals]] :
        Cardinality({e \in (1..4) \X (1..2) : t[e[1]][e[2]] # 0}) <= MaxNoisy}

\* tf.truncated_normal([n_scales], 1, 0.75/2): values within [0.25, 1.75]
ScaleVals == {Unit \div 2, Unit, (3 * Unit) \div 2}

\* tf.reduce_mean(pts, axis=0, keepdims=True)
reduce_mean(pts) ==
    Eager([j \in 1..2 |-> (pts[1][j] + pts[2][j] + pts[3][j] + pts[4][j]) \div 4])

\* tf.reduce_min(pts, axis=0)
Min2(a, b) == IF a <= b THEN a ELSE b
reduce_min(pts) ==
    Eager([j \in 1..2 |-> Min2(Min2(pts[1][j], pts[2][j]), Min2(pts[3][j], pts[4][j]))])

\* lines 111-112: (pts2 - center) * scale + center, for one scale
ScaleAbout(pts, s) ==
    LET center == reduce_mean(pts)
    IN  Eager([k \in 1..4 |->
            Eager([j \in 1..2 |-> ((pts[k][j] - center[j]) * s) \div Unit + center[j]])])

\* lines 113-114 and 128-129: every coordinate >= 0 and < 1
AllInside(pts) ==
    \A k \in 1..4 : \A j \in 1..2 : pts[k][j] >= 0 /\ pts[k][j] < Unit

\* tf.where(tf.reduce_all(valid, axis=[1, 2])): the indices of the candidates
\* that pass
Where(cands) == {k \in 1..Len(cands) : AllInside(cands[k])}

\* lin_space with the stop value left out, as numpy's linspace(endpoint=False)
lin_space_half_open(start, stop, n) ==
    Eager([k \in 1..n |-> start + ((k - 1) * (stop - start)) \div n])

\* tf.lin_space(start, stop, num): num values from start to stop, both included
lin_space(start, stop, n) ==
    IF n = 1 THEN <<start>>
    ELSE Eager([k \in 1..n |-> start + ((k - 1) * (stop - start)) \div (n - 1)])

\* the n_angles whose angles are whole quarter turns
NAngles == {n \in 1..MaxNAngles : n = 1 \/ TwoPi % (n - 1) = 0}

\* tf.cos, tf.sin of a whole number of quarter turns
Cos(a) == CASE a % 4 = 0 -> 1 [] a % 4 = 1 -> 0 [] a % 4 = 2 -> -1 [] OTHER -> 0
Sin(a) == CASE a % 4 = 0 -> 0 [] a % 4 = 1 -> 1 [] a % 4 = 2 -> 0 [] OTHER -> -1

\* lines 123-127: (pts2 - center) @ [[cos, -sin], [sin, cos]] + center
RotateAbout(pts, a) ==
    LET center == reduce_mean(pts)
        rot_mat == <<<<Cos(a), -Sin(a)>>, <<Sin(a), Cos(a)>>>>
    IN  Eager([k \in 1..4 |->
            Eager([j \in 1..2 |->
                (pts[k][1] - center[1]) * rot_mat[1][j]
                + (pts[k][2] - center[2]) * rot_mat[2][j] + center[j]])])

\* tf.random_uniform((), minval, maxval): a value of [minval, maxval); with an
\* empty range the op returns minval
random_uniform(minval, maxval) ==
    IF minval < maxval THEN {minval, maxval - 1} ELSE {minval}

\* the rescaling without the reversal of shape: x by height, y by width
Rescaled_no_reverse(pts, sh) ==
    Eager([k \in 1..4 |-> Eager([j \in 1..2 |-> pts[k][j] * sh[j]])])

\* lines 142-143: pts *= shape[::-1]
Rescaled(pts, sh) ==
    LET rev == <<sh[2], sh[1]>>
    IN  Eager([k \in 1..4 |-> Eager([j \in 1..2 |-> pts[k][j] * rev[j]])])

\* product of two fixed-point numbers
Times(a, b) == (a * b) \div Unit

\* lines 145 and 147, with the target (line 151) as a ninth column
ax(p, q) == <<p[1], p[2], Unit, 0, 0, 0, -Times(p[1], q[1]), -Times(p[2], q[1]), q[1]>>
ay(p, q) == <<0, 0, 0, p[1], p[2], Unit, -Times(p[1], q[2]), -Times(p[2], q[2]), q[2]>>

\* lines 149-151: a_mat with p_mat as its last column
a_mat(p1, p2) ==
    Eager([r \in 1..8 |->
        IF r % 2 = 1 THEN ax(p1[(r + 1) \div 2], p2[(r + 1) \div 2])
        ELSE ay(p1[r \div 2], p2[r \div 2])])

(***************************************************************************)
(* tf.matrix_solve_ls on a square system: the solution of a_mat x = p_mat  *)
(* when a_mat is regular, by elimination on integer rows to a triangular   *)
(* system and back substitution in exact fractions.                        *)
(***************************************************************************)
RECURSIVE RowGcd(_, _, _)
RowGcd(r, j, g) ==
    IF j > Len(r) \/ g = 1 THEN g ELSE RowGcd(r, j + 1, Gcd(Abs(r[j]), g))

ReduceRow(r) ==
    LET g == RowGcd(r, 1, 0)
    IN  IF g <= 1 THEN r ELSE Eager([j \in 1..Len(r) |-> r[j] \div g])

RECURSIVE FindPivot(_, _, _)
FindPivot(m, k, r) ==
    IF r > Len(m) THEN 0 ELSE IF m[r][k] # 0 THEN r ELSE FindPivot(m, k, r + 1)

SwapRows(m, a, b) ==
    IF a = b THEN m
    ELSE Eager([r \in 1..Len(m) |-> IF r = a THEN m[b] ELSE IF r = b THEN m[a] ELSE m[r]])

\* clears column k below row k; the columns before k are already clear there
Eliminate(m, k) ==
    Eager([r \in 1..Len(m) |->
        IF r <= k \/ m[r][k] = 0 THEN m[r]
        ELSE ReduceRow(Eager([j \in 1..Len(m[r]) |->
                 IF j <= k THEN 0 ELSE m[k][k] * m[r][j] - m[r][k] * m[k][j]]))])

RECURSIVE Triangular(_, _)
Triangular(m, k) ==
    IF k > Len(m) THEN m
    ELSE LET p == FindPivot(m, k, k)
         IN  IF p = 0 THEN <<>> ELSE Triangular(Eliminate(SwapRows(m, k, p), k), k + 1)

\* sum of row[j] * x[j] over the columns j..Len(x)
RECURSIVE Dot(_, _, _, _)
Dot(row, x, j, acc) ==
    IF j > Len(x) THEN acc
    ELSE Dot(row, x, j + 1,
             IF row[j] = 0 THEN acc ELSE FAdd(acc, Frac(row[j] * x[j][1], x[j][2])))

RECURSIVE BackSubstitute(_, _, _)
BackSubstitute(u, k, x) ==
    IF k = 0 THEN x
    ELSE BackSubstitute(u, k - 1,
             [x EXCEPT ![k] = FDiv(FSub(FInt(u[k][Len(u) + 1]), Dot(u[k], x, k + 1, FInt(0))),
                                   FInt(u[k][k]))])

\* <<>> when the system is singular
matrix_solve_ls(m) ==
    LET u == Triangular(Eager([r \in 1..Len(m) |-> ReduceRow(m[r])]), 1)
    IN  IF u = <<>> THEN <<>>
        ELSE BackSubstitute(u, Len(m), Eager([r \in 1..Len(m) |-> FInt(0)]))

\* what a singular system leaves in the result when the solver does not raise
NotANumber == Eager([r \in 1..8 |-> <<0, 0>>])

----------------------------------------------------------------------------
SInit ==
    /\ pc = "perspective"
    /\ perspective \in BOOLEAN /\ scaling \in BOOLEAN
    /\ rotation \in BOOLEAN /\ translation \in BOOLEAN
    /\ shape = <<>>
    /\ pts1 = InitPts1 /\ pts2 = InitPts2
    /\ scales = <<>> /\ scaled = <<>> /\ angles = <<>> /\ rotated = <<>>
    /\ valid = {} /\ idx = 0 /\ draws = 0
    /\ homography = <<>> /\ err = "none"

\* The locals of a finished stage that no later line reads are not carried on.
ForgetStage ==
    /\ scales' = <<>> /\ scaled' = <<>> /\ angles' = <<>> /\ rotated' = <<>>
    /\ valid' = {} /\ idx' = 0

\* lines 103-104
PerspectiveStage ==
    /\ UNCHANGED <<cvars, avars>>
    /\ pc = "perspective"
    /\ pc' = "scaling"
    /\ IF perspective
       THEN /\ \E noise \in NoiseTensors :
                 pts2' = Eager([k \in 1..4 |->
                             Eager([j \in 1..2 |-> pts2[k][j] + noise[k][j]])])
            /\ draws' = draws + 1
       ELSE UNCHANGED <<pts2, draws>>
    /\ UNCHANGED <<perspective, scaling, rotation, translation, shape, pts1,
                   scales, scaled, angles, rotated, valid, idx, homography, err>>

\* lines 115-116 and 130-131: tf.random_shuffle(valid)[0] picks any valid
\* candidate; element 0 of an empty tensor is an out-of-bounds slice
PickValid(cands, v, next) ==
    IF v = {}
    THEN /\ idx' = 0 /\ pts2' = pts2
         /\ pc' = "raised" /\ err' = "InvalidArgumentError"
    ELSE /\ \E c \in v : idx' = c /\ pts2' = cands[c]
         /\ pc' = next /\ err' = err

\* lines 108-116
ScalingStage ==
    /\ UNCHANGED <<cvars, avars>>
    /\ pc = "scaling"
    /\ IF scaling
       THEN /\ \E n_scales \in 0..MaxNScales :
                 \E sampled \in [1..n_scales -> ScaleVals] :
                     /\ scales' = <<Unit>> \o Eager(sampled)
                     /\ scaled' = Eager([k \in 1..(n_scales + 1) |->
                                       ScaleAbout(pts2, scales'[k])])
            /\ valid' = Where(scaled')
            /\ PickValid(scaled', valid', "rotation")
            /\ draws' = draws + 2
            /\ UNCHANGED <<angles, rotated>>
       ELSE /\ pc' = "rotation"
            /\ UNCHANGED <<pts2, scales, scaled, angles, rotated, valid, idx, draws, err>>
    /\ UNCHANGED <<perspective, scaling, rotation, translation, shape, pts1, homography>>

\* lines 120-131
RotationStage ==
    /\ UNCHANGED <<cvars, avars>>
    /\ pc = "rotation"
    /\ IF rotation
       THEN /\ \E n_angles \in NAngles :
                 /\ angles' = lin_space(0, TwoPi, n_angles)
                 /\ rotated' = Eager([k \in 1..n_angles |-> RotateAbout(pts2, angles'[k])])
            /\ valid' = Where(rotated')
            /\ PickValid(rotated', valid', "translation")
            /\ draws' = draws + 1
            /\ scales' = <<>> /\ scaled' = <<>>
       ELSE /\ pc' = "translation"
            /\ ForgetStage
            /\ UNCHANGED <<pts2, draws, err>>
    /\ UNCHANGED <<perspective, scaling, rotation, translation, shape, pts1, homography>>

\* lines 134-138
TranslationStage ==
    /\ UNCHANGED <<cvars, avars>>
    /\ pc = "translation"
    /\ pc' = "rescale"
    /\ IF translation
       THEN LET t_min == reduce_min(pts2)
                t_max == reduce_min(Eager([k \in 1..4 |->
                             Eager([j \in 1..2 |-> Unit - pts2[k][j]])]))
            IN  /\ \E tx \in random_uniform(-t_min[1], t_max[1]) :
                     \E ty \in random_uniform(-t_min[2], t_max[2]) :
                         pts2' = Eager([k \in 1..4 |-> <<pts2[k][1] + tx, pts2[k][2] + ty>>])
                /\ draws' = draws + 2
       ELSE UNCHANGED <<pts2, draws>>
    /\ ForgetStage
    /\ UNCHANGED <<perspective, scaling, rotation, translation, shape, pts1,
                   homography, err>>

\* lines 141-143.  shape is read here for the first time: the value the caller
\* passed is fixed at this step.
RescaleStage ==
    /\ UNCHANGED <<cvars, avars>>
    /\ pc = "rescale"
    /\ pc' = "solve"
    /\ \E height \in -1..MaxDim : \E width \in -1..MaxDim :
           /\ shape' = <<height, width>>
           /\ pts1' = Rescaled(pts1, shape')
           /\ pts2' = Rescaled(pts2, shape')
    /\ UNCHANGED <<perspective, scaling, rotation, translation, scales, scaled,
                   angles, rotated, valid, idx, draws, homography, err>>

\* lines 149-153.  On a singular system the Cholesky solve behind
\* matrix_solve_ls(fast=True) either raises or returns non-finite values.
SolveStage ==
    /\ UNCHANGED <<cvars, avars>>
    /\ pc = "solve"
    /\ LET x == matrix_solve_ls(a_mat(pts1, pts2))
       IN  IF x # <<>>
           THEN homography' = x /\ pc' = "returned" /\ err' = err
           ELSE \/ homography' = NotANumber /\ pc' = "returned" /\ err' = err
                \/ homography' = homography /\ pc' = "raised"
                   /\ err' = "InvalidArgumentError"
    /\ UNCHANGED <<perspective, scaling, rotation, translation, shape, pts1, pts2,
                   scales, scaled, angles, rotated, valid, idx, draws>>

\* sample_homography is not running
SIdle ==
    /\ pc = "idle"
    /\ perspective = FALSE /\ scaling = FALSE /\ rotation = FALSE /\ translation = FALSE
    /\ shape = <<>> /\ pts1 = <<>> /\ pts2 = <<>>
    /\ scales = <<>> /\ scaled = <<>> /\ angles = <<>> /\ rotated = <<>>
    /\ valid = {} /\ idx = 0 /\ draws = 0
    /\ homography = <<>> /\ err = "none"

(***************************************************************************)
(* flat2mat, mat2flat, invert_homography, on one homography (a batch of 1) *)
(***************************************************************************)
\* entries of the input tensors range over 0..MaxEntry
MaxEntry == 1
\* at most MaxCalls calls are chained
MaxCalls == 2

Zero == <<0, 1>>
One == <<1, 1>>

\* line 168: tf.reshape(tf.concat([H, ones], axis=1), [-1, 3, 3])
flat2mat(h) ==
    LET v == h \o <<One>>
    IN  Eager([r \in 1..3 |-> Eager([c \in 1..3 |-> v[3 * (r - 1) + c]])])

\* mat2flat keeping the last eight entries instead of the first eight
mat2flat_drop_first(m) ==
    LET v == Eager([k \in 1..9 |-> m[((k - 1) \div 3) + 1][((k - 1) % 3) + 1]])
    IN  Eager([k \in 1..8 |-> FDiv(v[k + 1], v[9])])

\* lines 176-177: H = tf.reshape(H, [-1, 9]); (H / H[:, 8:9])[:, :8]
mat2flat(m) ==
    LET v == Eager([k \in 1..9 |-> m[((k - 1) \div 3) + 1][((k - 1) % 3) + 1]])
    IN  Eager([k \in 1..8 |-> FDiv(v[k], v[9])])

\* determinant and cofactors of a 3x3 matrix
Minor(m, r1, r2, c1, c2) ==
    FSub(FMul(m[r1][c1], m[r2][c2]), FMul(m[r1][c2], m[r2][c1]))
Others(k) == CASE k = 1 -> <<2, 3>> [] k = 2 -> <<1, 3>> [] OTHER -> <<1, 2>>
Cofactor(m, r, c) ==
    LET rr == Others(r)
        cc == Others(c)
        d == Minor(m, rr[1], rr[2], cc[1], cc[2])
    IN  IF (r + c) % 2 = 0 THEN d ELSE FSub(Zero, d)
Det(m) ==
    FAdd(FAdd(FMul(m[1][1], Cofactor(m, 1, 1)), FMul(m[1][2], Cofactor(m, 1, 2))),
         FMul(m[1][3], Cofactor(m, 1, 3)))

\* tf.matrix_inverse: the adjugate over the determinant; <<>> when the input
\* is not invertible (the op raises)
matrix_inverse(m) ==
    LET d == Det(m)
    IN  IF d = Zero THEN <<>>
        ELSE Eager([r \in 1..3 |-> Eager([c \in 1..3 |-> FDiv(Cofactor(m, c, r), d)])])

\* invert_homography without the normalisation by the last entry
invert_homography_unnormalised(h) ==
    LET inv == matrix_inverse(flat2mat(h))
    IN  IF inv = <<>> THEN <<>>
        ELSE Eager([k \in 1..8 |-> inv[((k - 1) \div 3) + 1][((k - 1) % 3) + 1]])

\* line 160: mat2flat(tf.matrix_inverse(flat2mat(H))); <<>> when
\* tf.matrix_inverse raises
invert_homography(h) ==
    LET inv == matrix_inverse(flat2mat(h))
    IN  IF inv = <<>> THEN <<>> ELSE mat2flat(inv)

IsFlat(t) == Len(t) = 8
IsMat(t) == Len(t) = 3
AllFinite(t) ==
    IF IsFlat(t) THEN \A k \in 1..8 : IsFinite(t[k])
    ELSE \A r \in 1..3 : \A c \in 1..3 : IsFinite(t[r][c])

FlatInputs ==
    {Eager([k \in 1..8 |-> FInt(f[k])]) : f \in [1..8 -> 0..MaxEntry]}
MatInputs ==
    {Eager([r \in 1..3 |-> Eager([c \in 1..3 |-> FInt(f[3 * (r - 1) + c])])]) :
        f \in [1..9 -> 0..MaxEntry]}

\* H0 is the tensor the caller starts from, H the value of the last call (H0
\* before any call), arg the argument of the last call.
CInit ==
    /\ H0 \in FlatInputs \cup MatInputs
    /\ H = H0 /\ arg = <<>> /\ calls = <<>> /\ raised = "none"

CanCall == Len(calls) < MaxCalls /\ raised = "none" /\ AllFinite(H)

CallFlat2mat ==
    /\ UNCHANGED <<svars, avars>>
    /\ CanCall /\ IsFlat(H)
    /\ H' = flat2mat(H)
    /\ arg' = H /\ calls' = Append(calls, "flat2mat")
    /\ UNCHANGED <<H0, raised>>

CallMat2flat ==
    /\ UNCHANGED <<svars, avars>>
    /\ CanCall /\ IsMat(H)
    /\ H' = mat2flat(H)
    /\ arg' = H /\ calls' = Append(calls, "mat2flat")
    /\ UNCHANGED <<H0, raised>>

CallInvertHomography ==
    /\ UNCHANGED <<svars, avars>>
    /\ CanCall /\ IsFlat(H)
    /\ LET r == invert_homography(H)
       IN  IF r = <<>>
           THEN H' = H /\ raised' = "InvalidArgumentError"
           ELSE H' = r /\ raised' = raised
    /\ arg' = H /\ calls' = Append(calls, "invert_homography")
    /\ UNCHANGED H0

CIdle == H = <<>> /\ H0 = <<>> /\ arg = <<>> /\ calls = <<>> /\ raised = "none"

(***************************************************************************)
(* homography_adaptation.  net(image)['prob'] is a tensor of PixelCount     *)
(* values of 0..MaxProb of dtype prob_dtype; detector_head's prob is the   *)
(* float32 output of a softmax (line 18).                                  *)
(***************************************************************************)
\* config['homography_adaptation']['num'] ranges over -1..MaxNum
MaxNum == 3
MaxProb == 2
PixelCount == 2

Pixels == 1..PixelCount
DTypes == {"float32", "int32"}

\* line 50: tf.ones_like(prob, dtype=tf.int32)
ones_like(t) == Eager([k \in 1..Len(t) |-> 1])

\* lines 25 and 68: tf.to_int32(tf.greater_equal(prob, threshold))
Thresholded(t, threshold) ==
    Eager([k \in 1..Len(t) |-> IF t[k][1] >= threshold * t[k][2] THEN 1 ELSE 0])

AInit ==
    /\ apc = "inference"
    /\ num \in -1..MaxNum
    /\ net_prob \in [Pixels -> 0..MaxProb]
    /\ prob_dtype \in DTypes
    /\ detection_threshold \in 0..MaxProb
    /\ i = 0 /\ prob = <<>> /\ counts = <<>> /\ pred = <<>> /\ steps = 0

\* lines 49-50, and the loop variables of line 65
Inference ==
    /\ UNCHANGED <<svars, cvars>>
    /\ apc = "inference"
    /\ prob' = Eager([k \in Pixels |-> FInt(net_prob[k])])
    /\ counts' = ones_like(prob')
    /\ i' = 0
    /\ apc' = "while_loop"
    /\ UNCHANGED <<num, pred, net_prob, prob_dtype, detection_threshold, steps>>

\* a step that counts the sample in counts
step_accumulating ==
    /\ UNCHANGED <<svars, cvars>>
    /\ apc = "while_loop"
    /\ i < num - 1
    /\ i' = i + 1 /\ prob' = prob /\ counts' = Eager([k \in Pixels |-> counts[k] + 1])
    /\ steps' = steps + 1
    /\ UNCHANGED <<apc, num, pred, net_prob, prob_dtype, detection_threshold>>

\* lines 52-60 under the condition of line 63
step ==
    /\ UNCHANGED <<svars, cvars>>
    /\ apc = "while_loop"
    /\ i < num - 1
    /\ i' = i + 1 /\ prob' = prob /\ counts' = counts
    /\ steps' = steps + 1
    /\ UNCHANGED <<apc, num, pred, net_prob, prob_dtype, detection_threshold>>

\* line 63 false: the loop is left
LoopExit ==
    /\ UNCHANGED <<svars, cvars>>
    /\ apc = "while_loop"
    /\ ~(i < num - 1)
    /\ apc' = "divide"
    /\ UNCHANGED <<num, i, prob, counts, pred, net_prob, prob_dtype,
                   detection_threshold, steps>>

\* line 67: prob /= counts.  counts is int32 (line 50); TensorFlow's division
\* of two tensors of different dtypes raises TypeError, and of two int32
\* tensors gives their quotient as a float.
Divide ==
    /\ UNCHANGED <<svars, cvars>>
    /\ apc = "divide"
    /\ IF prob_dtype = "int32"
       THEN /\ prob' = Eager([k \in Pixels |-> FDiv(prob[k], FInt(counts[k]))])
            /\ apc' = "threshold"
       ELSE /\ prob' = prob
            /\ apc' = "TypeError"
    /\ UNCHANGED <<num, i, counts, pred, net_prob, prob_dtype, detection_threshold, steps>>

\* lines 68-69
Threshold ==
    /\ UNCHANGED <<svars, cvars>>
    /\ apc = "threshold"
    /\ pred' = Thresholded(prob, detection_threshold)
    /\ apc' = "returned"
    /\ UNCHANGED <<num, i, prob, counts, net_prob, prob_dtype, detection_threshold, steps>>

\* homography_adaptation is not running
AIdle ==
    /\ apc = "idle" /\ num = 0 /\ i = 0 /\ prob = <<>> /\ counts = <<>>
    /\ pred = <<>> /\ net_prob = <<>> /\ prob_dtype = "float32"
    /\ detection_threshold = 0 /\ steps = 0

----------------------------------------------------------------------------
\* calls of sample_homography
Init == SInit /\ CIdle /\ AIdle
Next ==
    \/ PerspectiveStage
    \/ ScalingStage
    \/ RotationStage
    \/ TranslationStage
    \/ RescaleStage
    \/ SolveStage
Spec == Init /\ [][Next]_vars

\* chains of calls of flat2mat, mat2flat and invert_homography
ConvInit == CInit /\ SIdle /\ AIdle
ConvNext ==
    \/ CallFlat2mat
    \/ CallMat2flat
    \/ CallInvertHomography
ConvSpec == ConvInit /\ [][ConvNext]_vars

\* calls of homography_adaptation
AdaptInit == AInit /\ SIdle /\ CIdle
AdaptNext ==
    \/ Inference
    \/ step
    \/ LoopExit
    \/ Divide
    \/ Threshold
AdaptSpec == AdaptInit /\ [][AdaptNext]_vars
\* the call is one thread of control that runs on until it returns or raises
AdaptLiveSpec == AdaptSpec /\ WF_vars(AdaptNext)

(***************************************************************************)
(* Properties.                                                             *)
(***************************************************************************)
AllDisabled == ~perspective /\ ~scaling /\ ~rotation /\ ~translation
PositiveShape == Len(shape) = 2 /\ shape[1] > 0 /\ shape[2] > 0
ScalingActed == scales # <<>>
RotationActed == angles # <<>>

\* the half-size centred square (0.25,0.25), (0.25,0.75), (0.75,0.75), (0.75,0.25)
HalfSquare ==
    LET lo == Unit \div 4
        hi == (3 * Unit) \div 4
    IN  <<<<lo, lo>>, <<lo, hi>>, <<hi, hi>>, <<hi, lo>>>>

\* the fixed-point coordinate c as a fraction of pixels
Px(c) == Frac(c, Unit)

\* the homography h = (h1..h8) maps p to q:
\*   q.x = (h1 p.x + h2 p.y + h3) / (h7 p.x + h8 p.y + 1), q.y likewise
Maps(h, p, q) ==
    LET den == FAdd(FAdd(FMul(h[7], Px(p[1])), FMul(h[8], Px(p[2]))), One)
        nx == FAdd(FAdd(FMul(h[1], Px(p[1])), FMul(h[2], Px(p[2]))), h[3])
        ny == FAdd(FAdd(FMul(h[4], Px(p[1])), FMul(h[5], Px(p[2]))), h[6])
    IN  /\ \A k \in 1..8 : IsFinite(h[k])
        /\ nx = FMul(den, Px(q[1]))
        /\ ny = FMul(den, Px(q[2]))

\* C1: when sample_homography returns for a shape with positive height and
\* width, every corner of the patch pts2 lies within [0, width) on x and
\* [0, height) on y.  (Violated: with only the perspective stage enabled a
\* corner coordinate of 0.75 plus the largest noise is 1.0, the image border.)
C1_PatchInsideImage ==
    (pc = "returned" /\ PositiveShape) =>
        \A k \in 1..4 :
            /\ pts2[k][1] >= 0 /\ pts2[k][1] < Unit * shape[2]
            /\ pts2[k][2] >= 0 /\ pts2[k][2] < Unit * shape[1]

\* C2: mat2flat(flat2mat(h)) is h, for every flattened homography h; the
\* matrix in between holds h row-major with 1 as its last entry.
C2_FlatMatRoundTrip ==
    /\ (calls = <<"flat2mat">>) =>
          /\ H[3][3] = One
          /\ \A k \in 1..8 : H[((k - 1) \div 3) + 1][((k - 1) % 3) + 1] = H0[k]
    /\ (calls = <<"flat2mat", "mat2flat">>) => H = H0

C2_Witness ==
    /\ calls = <<"flat2mat", "mat2flat">>
    /\ H = H0 /\ H0[2] = One /\ H0[4] = Zero /\ H0[8] = One

\* C3: with the four stages disabled no random draw is made and pts2 stays
\* the half-size centred square in the corner order of pts1; for a shape of
\* positive height and width the call returns the homography
\* (1/2, 0, width/4, 0, 1/2, height/4, 0, 0), which maps each corner of the
\* unit square scaled by (width, height) to the corner of that square scaled
\* by (width, height).
C3_AllDisabledIsFixedHomography ==
    AllDisabled =>
        /\ draws = 0
        /\ pc \in {"scaling", "rotation", "translation", "rescale"} => pts2 = HalfSquare
        /\ (pc \in {"solve", "returned", "raised"} /\ PositiveShape) =>
              /\ pc # "raised"
              /\ \A k \in 1..4 :
                    /\ pts1[k] = <<InitPts1[k][1] * shape[2], InitPts1[k][2] * shape[1]>>
                    /\ pts2[k] = <<HalfSquare[k][1] * shape[2], HalfSquare[k][2] * shape[1]>>
              /\ pc = "returned" =>
                    /\ \A k \in 1..4 : Maps(homography, pts1[k], pts2[k])
                    /\ homography = <<Frac(1, 2), Zero, Frac(shape[2], 4),
                                      Zero, Frac(1, 2), Frac(shape[1], 4), Zero, Zero>>

C3_Witness ==
    /\ AllDisabled /\ pc = "returned" /\ draws = 0
    /\ shape = <<1, 2>>
    /\ homography = <<Frac(1, 2), Zero, Frac(1, 2), Zero, Frac(1, 2), Frac(1, 4), Zero, Zero>>

\* C4: when the border filter of the scaling stage or of the rotation stage
\* leaves no valid candidate, the stage leaves pts2 as it was and the call
\* goes on.  (Violated: element 0 of the empty valid set is selected and the
\* call ends in an error.)
C4_EmptyValidSetFallsBack ==
    ((ScalingActed \/ RotationActed) /\ valid = {}) =>
        /\ pc # "raised" /\ err = "none"
        /\ pts2 = (IF ScalingActed THEN scaled[1] ELSE rotated[1])

\* C5: a call with a height or a width <= 0 ends in an InvalidShape error and
\* returns no homography.  (Violated: the shape is never checked; a negative
\* height and width give a regular system and the call returns its solution,
\* a zero one gives a singular system.)
C5_InvalidShapeRejected ==
    (pc \in {"returned", "raised"} /\ Len(shape) = 2 /\ ~PositiveShape) =>
        pc = "raised" /\ err = "InvalidShape" /\ homography = <<>>

\* C6: mat2flat of a matrix whose [2][2] entry is 0 raises
\* DegenerateHomography, and so does invert_homography when the matrix is
\* singular or its inverse has a zero [2][2] entry.  (Violated: mat2flat
\* divides by the zero and returns inf and NaN.)
C6_ZeroNormaliserRejected ==
    LET last == calls[Len(calls)]
        degenerate ==
            \/ last = "mat2flat" /\ arg[3][3] = Zero
            \/ /\ last = "invert_homography"
               /\ \/ Det(flat2mat(arg)) = Zero
                  \/ matrix_inverse(flat2mat(arg))[3][3] = Zero
    IN  (calls # <<>> /\ degenerate) => raised = "DegenerateHomography"

\* C7: invert_homography(invert_homography(h)) is h whenever flat2mat(h) is
\* invertible and its inverse has a non-zero [2][2] entry (the first call then
\* returns finite values, and the second call does not raise).
C7_InvertIsInvolution ==
    (calls = <<"invert_homography", "invert_homography">>) =>
        raised = "none" /\ H = H0

C7_Witness ==
    /\ calls = <<"invert_homography", "invert_homography">>
    /\ raised = "none" /\ H = H0
    /\ arg # H0
    /\ \E k \in 1..8 : arg[k][1] < 0

\* C8: in the scaling stage candidate 0 is the scale 1.0 and always passes the
\* border filter, so the valid set is never empty, and the corner set that
\* replaces pts2 is one of the valid candidates.  (Violated: a corner the
\* perspective stage moved to 1.0 fails the filter under the scale 1.0.)
C8_IdentityScaleAlwaysValid ==
    ScalingActed =>
        /\ scales[1] = Unit
        /\ 1 \in valid
        /\ idx \in valid /\ pts2 = scaled[idx]

====
